---- MODULE Spec2Model ----
(***************************************************************************)
(* Model of the lazy tab loader of MainWindow (src/src/main.cpp): the      *)
(* notebook of pages, the per-tab TabInfo records, the function-local      *)
(* static latch of on_tab_switch, the one-shot GLib timers and tab_mutex_. *)
(* Every signal handler runs to completion on the UI thread, together with *)
(* the handlers that GTK invokes synchronously from inside it (switch-page *)
(* emitted by remove_page / insert_page / set_current_page).               *)
(***************************************************************************)
EXTENDS Integers, Sequences, FiniteSets, TLC

\* ------------------------------------------------------------------------
\* Bounds of the model
\* ------------------------------------------------------------------------

\* how many panel constructions may throw in one run
MaxThrows == 1

\* how many times the user may act (click, page change, switch_to_tab) in one run
MaxUserEvents == 3

\* how many asynchronous scans may be requested in one run
MaxScans == 2

\* how many times the user may act on the WiFi tab (switch, buttons) in one run
MaxWifiEvents == 2
MaxNets == 3
MaxToggles == 4
MaxProbes == 4
MaxDialogs == 1

\* ------------------------------------------------------------------------
\* Program constants
\* ------------------------------------------------------------------------

\* delays of the one-shot timers, in milliseconds
PowerCreateDelay == 10
LoadDelay == 50
LatchResetDelay == 100
CreateDelay == 100

\* the tab ids create_tabs knows, in std::map (lexicographic) order
SortedIds == <<"power", "volume", "wifi">>

Tabs == {SortedIds[i] : i \in 1..Len(SortedIds)}

\* tab orders delivered by the settings (get_tab_order)
TabOrders == {<<"power", "volume", "wifi">>}

\* values of the command line's initial tab ("" = none)
InitialTabs == {"", "wifi"}

NoError == "<none>"

\* what a throwing panel constructor leaves in the catch blocks
Exceptions == {"std::exception", "other"}

\* how a relock of the non-recursive std::mutex by its owner ends
\* (undefined behaviour): the thread never returns from lock(), or the
\* lock is taken as if it were free
RelockOutcomes == {"hang", "proceed"}

\* moments at which the user may act, as time elapsed since the last step
Elapse == {0, 50, 100}

\* delays of the one-shot timers of WifiTab, in milliseconds
DelayedScanDelay == 100
ScanButtonDelay == 2000
SwitchDelay == 1000

\* Wifi::Network values nmcli may report
NetHome == [ssid |-> "home", signal_strength |-> 80, connected |-> TRUE, secured |-> TRUE]
NetCafe == [ssid |-> "cafe", signal_strength |-> 55, connected |-> FALSE, secured |-> FALSE]
NetLab == [ssid |-> "lab", signal_strength |-> 55, connected |-> FALSE, secured |-> TRUE]

\* network lists a run of "nmcli device wifi list" may deliver
ScanLists == {<<>>, <<NetCafe, NetHome, NetLab>>}

\* how a scan's query ends: popen fails, nmcli fails (no output), or a list
ScanOutcomes ==
    {[kind |-> "popen_failed", list |-> <<>>],
     [kind |-> "query_failed", list |-> <<>>]}
        \cup {[kind |-> "ok", list |-> l] : l \in ScanLists}

\* what the outside world decides during one handler: the exit status of
\* its std::system command, whether a WiFi interface is found, how the
\* scans it runs end, and the answer to the password dialog
\* what a read of a member of a destroyed widget finds (undefined
\* behaviour): the old value still in the freed memory, another value, or
\* the process is stopped
DanglingReads == {"intact", "garbage", "crash"}

Envs == [cmd_ok : BOOLEAN, iface : BOOLEAN, scan : ScanOutcomes,
         password : {"", "secret"}, confirm : BOOLEAN,
         dangling : DanglingReads]

\* the answers a handler can meet: those it never asks for stay fixed
RadioEnvs ==
    {e \in Envs : e.iface /\ e.password = "" /\ ~e.confirm
                     /\ e.dangling = "intact"}
PanelEnvs == {e \in RadioEnvs : e.scan.kind = "ok" /\ e.scan.list = <<>>}
ConnectEnvs == {e \in Envs : e.cmd_ok /\ ~e.confirm}
ForgetEnvs ==
    {e \in Envs : e.cmd_ok /\ e.iface /\ e.password = ""
                     /\ e.dangling # "garbage"}

QuietEnv ==
    [cmd_ok |-> TRUE, iface |-> TRUE, scan |-> [kind |-> "ok", list |-> <<>>],
     password |-> "", confirm |-> FALSE, dangling |-> "intact"]

\* moments at which something happens on the WiFi tab, as time elapsed
\* since the last step
WifiElapse == {0, 1500}

VARIABLES
    tab_order,              \* Settings::TabSettings::get_tab_order()
    initial_tab_,           \* MainWindow::initial_tab_
    prevent_auto_loading_,  \* MainWindow::prevent_auto_loading_
    remove_policy,          \* neighbour GtkNotebook selects when the current page is removed
    tab_widgets_,           \* MainWindow::tab_widgets_ : id -> TabInfo
    tab_load_errors_,       \* MainWindow::tab_load_errors_ : id -> message
    pages,                  \* the notebook's pages, in order
    cur,                    \* notebook_.get_current_page(), -1 = none
    loading,                \* static bool loading of on_tab_switch
    timers,                 \* pending Glib::signal_timeout() one-shots, in attach order
    tab_mutex_,             \* TRUE while tab_mutex_ is locked
    stuck,                  \* the UI thread is blocked in lock() for ever
    hist,                   \* history of the run (observations only)
    radio,                  \* NetworkManager: "nmcli radio wifi" says enabled
    manager_,               \* WifiManager::Impl : wifi_enabled_, networks_
    wifi_tab,               \* the members of WifiTab
    workers,                \* threads of scan_networks_async, in request order
    whist,                  \* history of the WiFi tab (observations only)
    power_tab,              \* Power::PowerTab: the keybinds and the last key press
    volume_tab,             \* the Volume::VolumeWidget of every sink and the last toggle
    tick,                   \* flips whenever the main loop dispatches a callback
    ethernet                \* WifiTab's ethernet status box and the probes in flight

config == <<tab_order, initial_tab_, prevent_auto_loading_, remove_policy>>
vars == <<tab_order, initial_tab_, prevent_auto_loading_, remove_policy,
          tab_widgets_, tab_load_errors_, pages, cur, loading, timers,
          tab_mutex_, stuck, hist, radio, manager_, wifi_tab, workers, whist,
          power_tab, volume_tab, tick, ethernet>>

\* ------------------------------------------------------------------------
\* The mutable state as one value, threaded through the handlers
\* ------------------------------------------------------------------------

S == [tab_widgets_ |-> tab_widgets_, tab_load_errors_ |-> tab_load_errors_,
      pages |-> pages, cur |-> cur, loading |-> loading, timers |-> timers,
      tab_mutex_ |-> tab_mutex_, stuck |-> stuck, hist |-> hist,
      ub |-> "hang", ret |-> -1,
      radio |-> radio, manager_ |-> manager_, wifi_tab |-> wifi_tab,
      workers |-> workers, whist |-> whist,
      power_tab |-> power_tab, volume_tab |-> volume_tab, tick |-> tick,
      ethernet |-> ethernet,
      env |-> QuietEnv, thread |-> "ui"]

Assign(s) ==
    /\ tab_widgets_' = s.tab_widgets_
    /\ tab_load_errors_' = s.tab_load_errors_
    /\ pages' = s.pages
    /\ cur' = s.cur
    /\ loading' = s.loading
    /\ timers' = s.timers
    /\ tab_mutex_' = s.tab_mutex_
    /\ stuck' = s.stuck
    /\ hist' = s.hist
    /\ radio' = s.radio
    /\ manager_' = s.manager_
    /\ wifi_tab' = s.wifi_tab
    /\ workers' = s.workers
    /\ whist' = s.whist
    /\ power_tab' = s.power_tab
    /\ volume_tab' = s.volume_tab
    /\ tick' = s.tick
    /\ ethernet' = s.ethernet
    /\ UNCHANGED config

\* ------------------------------------------------------------------------
\* Helpers on sequences (page numbers are 0-based, as in GTK)
\* ------------------------------------------------------------------------

RemoveAt(seq, n) ==
    [i \in 1..(Len(seq) - 1) |-> IF i <= n THEN seq[i] ELSE seq[i + 1]]

InsertAt(seq, n, x) ==
    [i \in 1..(Len(seq) + 1) |->
        IF i <= n THEN seq[i] ELSE IF i = n + 1 THEN x ELSE seq[i - 1]]

Max(a, b) == IF a >= b THEN a ELSE b

\* the first id of a set of ids in the iteration order of std::map, "" if
\* the set is empty (the loops that break at the first match)
FirstId(ids) ==
    LET hits == {i \in 1..Len(SortedIds) : SortedIds[i] \in ids}
    IN  IF hits = {} THEN ""
        ELSE SortedIds[CHOOSE i \in hits : \A j \in hits : i <= j]

\* the lifecycle state of a slot, read off TabInfo and tab_load_errors_
StateOf(s, id) ==
    IF s.tab_widgets_[id].loaded THEN "Loaded"
    ELSE IF s.tab_widgets_[id].loading THEN "Loading"
    ELSE IF s.tab_load_errors_[id] # NoError THEN "Failed"
    ELSE "Placeholder"

State(id) == StateOf(S, id)

\* the conditions "!loaded && !loading" of switch_to_tab, of the label's
\* click handler and of on_tab_switch
needs_load_forgets_loaded(info) == ~info.loading

needs_load(info) == ~info.loaded /\ ~info.loading

\* ------------------------------------------------------------------------
\* std::mutex tab_mutex_ under std::lock_guard
\* ------------------------------------------------------------------------

Lock(s) ==
    IF s.stuck THEN s
    ELSE IF s.tab_mutex_
         THEN IF s.ub = "hang"
              THEN [s EXCEPT !.stuck = TRUE, !.hist.relocked = TRUE]
              ELSE [s EXCEPT !.hist.relocked = TRUE]
         ELSE [s EXCEPT !.tab_mutex_ = TRUE]

Unlock(s) ==
    IF s.stuck THEN s ELSE [s EXCEPT !.tab_mutex_ = FALSE]

\* Glib::signal_timeout().connect_once(..., delay)
AddTimer(s, kind, id, page_num, delay) ==
    IF s.stuck THEN s
    ELSE [s EXCEPT !.timers = Append(@, [kind |-> kind, id |-> id,
                                         page_num |-> page_num, due |-> delay])]

\* before Wifi::WifiTab is constructed there is no manager and no tab
NoManager == [wifi_enabled_ |-> FALSE, networks_ |-> <<>>]

NoWifiTab ==
    [constructed |-> FALSE,
     scan_button_ |-> FALSE,            \* scan_button_ is sensitive
     wifi_switch_ |-> FALSE,            \* wifi_switch_ is active
     switch_sensitive |-> TRUE,         \* wifi_switch_ is sensitive
     wifi_status_label_ |-> "Enabled",
     initial_scan_performed_ |-> FALSE,
     loading_label_ |-> FALSE,          \* loading_label_ != nullptr
     no_networks_label_ |-> FALSE,      \* no_networks_label_ != nullptr
     widgets_ |-> <<>>]                 \* the network of every WifiNetworkWidget

\* no WifiNetworkWidget
NoNet == [ssid |-> "", signal_strength |-> 0, connected |-> FALSE,
          secured |-> FALSE]

\* what the last step did on the WiFi side, and the counters of the run
NoLast ==
    [op |-> "none", requeried |-> FALSE, scan |-> "none", blocked |-> FALSE,
     error_events |-> 0, update_callbacks |-> 0, stale |-> FALSE,
     applied |-> -1, result |-> <<>>, cmd |-> "none", offthread |-> FALSE,
     results |-> 0, listed |-> <<>>,
     state_callbacks |-> 0, state_value |-> FALSE, state_first |-> TRUE,
     actions |-> 0, toggles |-> 0,
     in_widget |-> FALSE, clicked |-> NoNet, destroyed |-> FALSE,
     crashed |-> FALSE, used_freed |-> FALSE, steps |-> <<>>]

\* panel: the run looks inside the WiFi panel (WifiSpec); Spec stops at the
\* panel's constructor
NoWifiHist ==
    [panel |-> FALSE, last |-> NoLast, nScans |-> 0, nWifiEvents |-> 0,
     maxApplied |-> -1]

\* ------------------------------------------------------------------------
\* Wifi::WifiTab and Wifi::WifiManager::Impl.  The handlers run on the UI
\* thread (s.thread = "ui"), scan_networks also on the threads of
\* scan_networks_async (s.thread = "worker").  s.env is what the outside
\* world answers during the handler.
\* ------------------------------------------------------------------------

RECURSIVE on_wifi_switch_toggled(_)

\* a call that blocks its thread: std::system, popen, Glib::usleep
Blocking(s) ==
    IF s.thread = "ui" THEN [s EXCEPT !.whist.last.blocked = TRUE] ELSE s

\* the comparison without its first test
Before_signal_only(a, b) ==
    a.signal_strength > b.signal_strength

\* the comparison update_network_list hands to std::sort
Before(a, b) ==
    IF a.connected # b.connected THEN a.connected
    ELSE a.signal_strength > b.signal_strength

RECURSIVE SortNetworks(_)
\* std::sort of update_network_list (networks that compare equal keep
\* their order)
SortNetworks(nets) ==
    IF nets = <<>> THEN <<>>
    ELSE LET x == nets[Len(nets)]
             rest == SortNetworks(SubSeq(nets, 1, Len(nets) - 1))
             k == Cardinality({i \in 1..Len(rest) : ~Before(x, rest[i])})
         IN  SubSeq(rest, 1, k) \o <<x>> \o SubSeq(rest, k + 1, Len(rest))

\* Gtk::Switch::set_active: property_active changes only if the value
\* differs, and then on_wifi_switch_toggled runs
set_active(s, enabled) ==
    IF s.wifi_tab.wifi_switch_ = enabled THEN s
    ELSE on_wifi_switch_toggled([s EXCEPT !.wifi_tab.wifi_switch_ = enabled])

\* WifiTab::update_wifi_state, after set_active
wifi_state_shown(s, enabled) ==
    [s EXCEPT !.whist.last.offthread = (@ \/ s.thread # "ui"),
              !.wifi_tab.wifi_status_label_ =
                  IF enabled THEN "Enabled" ELSE "Disabled",
              !.wifi_tab.scan_button_ = enabled]

\* WifiTab::update_wifi_state
update_wifi_state(s, enabled) ==
    wifi_state_shown(set_active(s, enabled), enabled)

\* WifiTab::update_network_list
update_network_list(s, networks) ==
    [s EXCEPT !.whist.last.offthread = (@ \/ s.thread # "ui"),
              !.whist.last.listed = networks,
              !.whist.last.destroyed = (@ \/ s.whist.last.in_widget),
              !.wifi_tab.loading_label_ = FALSE,
              !.wifi_tab.no_networks_label_ =
                  (networks = <<>> /\ s.manager_.wifi_enabled_),
              !.wifi_tab.widgets_ =
                  IF networks = <<>> /\ s.manager_.wifi_enabled_ THEN <<>>
                  ELSE SortNetworks(networks)]

\* "if (update_callback_) update_callback_(networks_)"
update_callback_(s) ==
    update_network_list([s EXCEPT !.whist.last.update_callbacks = @ + 1],
                        s.manager_.networks_)

\* "if (state_callback_) state_callback_(wifi_enabled_)"
state_callback_(s) ==
    update_wifi_state(
        [s EXCEPT !.whist.last.state_callbacks = @ + 1,
                  !.whist.last.state_value = s.manager_.wifi_enabled_,
                  !.whist.last.state_first =
                      (@ /\ s.whist.last.update_callbacks = 0)],
        s.manager_.wifi_enabled_)

\* networks_.clear()
cleared(s) ==
    [s EXCEPT !.manager_.networks_ = <<>>]

\* entry of scan_networks: the observed state is queried again
requeried(s) ==
    [s EXCEPT !.whist.last.requeried = TRUE]

\* scan_networks taking a listed network for the proof that WiFi is on
scan_parse_sets_enabled(s, o) ==
    IF o.kind = "popen_failed"
    THEN [s EXCEPT !.whist.last.scan = "failed"]
    ELSE update_callback_(
            [s EXCEPT !.manager_.networks_ = @ \o o.list,
                      !.whist.last.results = @ + 1,
                      !.manager_.wifi_enabled_ = (@ \/ o.list # <<>>),
                      !.whist.last.result = o.list,
                      !.whist.last.scan =
                          IF o.kind = "query_failed" \/ @ = "failed"
                          THEN "failed" ELSE "ok"])

\* scan_networks publishing the list before the rows are parsed into it
scan_parse_callback_first(s, o) ==
    IF o.kind = "popen_failed"
    THEN [s EXCEPT !.whist.last.scan = "failed"]
    ELSE [update_callback_(s) EXCEPT
             !.manager_.networks_ = @ \o o.list,
             !.whist.last.result = o.list,
             !.whist.last.results = @ + 1,
             !.whist.last.scan =
                 IF o.kind = "query_failed" \/ @ = "failed"
                 THEN "failed" ELSE "ok"]

\* scan_networks: what popen and the parsing loop make of the query's end o
scan_parse(s, o) ==
    IF o.kind = "popen_failed"
    THEN [s EXCEPT !.whist.last.scan = "failed"]
    ELSE update_callback_(
            [s EXCEPT !.manager_.networks_ = @ \o o.list,
                      !.whist.last.result = o.list,
                      !.whist.last.results = @ + 1,
                      !.whist.last.scan =
                          IF o.kind = "query_failed" \/ @ = "failed"
                          THEN "failed" ELSE "ok"])

\* scan_networks with WiFi disabled
scan_disabled(s) ==
    update_callback_(
        [cleared(s) EXCEPT !.whist.last.scan = IF @ = "failed" THEN @ ELSE "ok",
                           !.whist.last.result = <<>>,
                           !.whist.last.results = @ + 1])

\* WifiManager::Impl::scan_networks
scan_networks(s, o) ==
    IF ~s.manager_.wifi_enabled_ THEN scan_disabled(requeried(s))
    ELSE scan_parse(Blocking(cleared(requeried(s))), o)

\* entry of a mutating action of the manager
begin_action(s, op) ==
    [s EXCEPT !.whist.last.op = op, !.whist.last.requeried = FALSE,
              !.whist.last.actions = @ + 1]

\* connect: "net.ssid == ssid && net.connected" for some net of networks_
already_connected(s, ssid) ==
    \E i \in 1..Len(s.manager_.networks_) :
        /\ s.manager_.networks_[i].ssid = ssid
        /\ s.manager_.networks_[i].connected

\* WifiManager::Impl::connect
connect(s, ssid, password, security_type) ==
    IF already_connected(s, ssid) THEN begin_action(s, "connect")
    ELSE IF password # "" /\ security_type # "" /\ ~s.env.iface
         THEN Blocking(begin_action(s, "connect"))
    ELSE scan_networks(Blocking(begin_action(s, "connect")), s.env.scan)

\* WifiManager::Impl::disconnect
disconnect(s) ==
    IF ~s.env.iface THEN Blocking(begin_action(s, "disconnect"))
    ELSE scan_networks(Blocking(begin_action(s, "disconnect")), s.env.scan)

\* WifiManager::Impl::forget_network
forget_network(s, ssid) ==
    scan_networks(Blocking(begin_action(s, "forget_network")), s.env.scan)

\* enable_wifi scanning before it reports the new state
enable_wifi_scans_first(s) ==
    IF s.env.cmd_ok
    THEN state_callback_(
            scan_networks(
               [Blocking(begin_action(s, "enable_wifi")) EXCEPT
                   !.radio = TRUE, !.manager_.wifi_enabled_ = TRUE,
                   !.whist.last.cmd = "ok"],
               s.env.scan))
    ELSE [Blocking(begin_action(s, "enable_wifi")) EXCEPT
             !.whist.last.cmd = "failed"]

\* WifiManager::Impl::enable_wifi
enable_wifi(s) ==
    IF s.env.cmd_ok
    THEN scan_networks(
            state_callback_(
               [Blocking(begin_action(s, "enable_wifi")) EXCEPT
                   !.radio = TRUE, !.manager_.wifi_enabled_ = TRUE,
                   !.whist.last.cmd = "ok"]),
            s.env.scan)
    ELSE [Blocking(begin_action(s, "enable_wifi")) EXCEPT
             !.whist.last.cmd = "failed"]

\* the scans in flight when the radio is switched off
overtaken(s) ==
    [s EXCEPT !.workers = [i \in 1..Len(@) |-> [@[i] EXCEPT !.stale = TRUE]]]

\* disable_wifi clearing the list whatever its command reported
disable_wifi_clears_anyway(s) ==
    IF s.env.cmd_ok
    THEN update_callback_(
            cleared(
               state_callback_(
                  [overtaken(Blocking(begin_action(s, "disable_wifi"))) EXCEPT
                      !.radio = FALSE, !.manager_.wifi_enabled_ = FALSE,
                      !.whist.last.cmd = "ok"])))
    ELSE update_callback_(
            cleared([Blocking(begin_action(s, "disable_wifi")) EXCEPT
                        !.whist.last.cmd = "failed"]))

\* WifiManager::Impl::disable_wifi
disable_wifi(s) ==
    IF s.env.cmd_ok
    THEN update_callback_(
            cleared(
               state_callback_(
                  [overtaken(Blocking(begin_action(s, "disable_wifi"))) EXCEPT
                      !.radio = FALSE, !.manager_.wifi_enabled_ = FALSE,
                      !.whist.last.cmd = "ok"])))
    ELSE [Blocking(begin_action(s, "disable_wifi")) EXCEPT
             !.whist.last.cmd = "failed"]

\* WifiManager::scan_networks_async: one more thread runs scan_networks
scan_networks_async(s) ==
    [s EXCEPT !.workers = Append(@, [seq |-> s.whist.nScans, pc |-> "start",
                                     stale |-> FALSE]),
              !.whist.nScans = @ + 1]

\* WifiTab::on_wifi_switch_toggled, the call of the manager
toggle_radio(s) ==
    IF s.wifi_tab.wifi_switch_ THEN enable_wifi(s) ELSE disable_wifi(s)

\* on_wifi_switch_toggled leaving the switch sensitive
on_wifi_switch_toggled_sensitive(s) ==
    AddTimer(toggle_radio([s EXCEPT !.whist.last.toggles = @ + 1]),
             "switch_reenable", "", -1, SwitchDelay)

\* WifiTab::on_wifi_switch_toggled
on_wifi_switch_toggled(s) ==
    AddTimer(toggle_radio([s EXCEPT !.wifi_tab.switch_sensitive = FALSE,
                                    !.whist.last.toggles = @ + 1]),
             "switch_reenable", "", -1, SwitchDelay)

\* the click handler of scan_button_
scan_clicked(s) ==
    AddTimer(scan_networks_async([s EXCEPT !.wifi_tab.scan_button_ = FALSE]),
             "scan_reenable", "", -1, ScanButtonDelay)

\* WifiTab::perform_delayed_scan
perform_delayed_scan(s) ==
    IF s.wifi_tab.initial_scan_performed_ THEN s
    ELSE IF s.manager_.wifi_enabled_
         THEN AddTimer(
                 scan_networks_async(
                    [s EXCEPT !.wifi_tab.initial_scan_performed_ = TRUE,
                              !.wifi_tab.scan_button_ = FALSE]),
                 "scan_reenable", "", -1, ScanButtonDelay)
    ELSE [s EXCEPT !.wifi_tab.initial_scan_performed_ = TRUE]

\* WifiManager::Impl::Impl: wifi_enabled_(check_wifi_enabled())
Impl(s) ==
    [Blocking(s) EXCEPT
        !.manager_ = [wifi_enabled_ |-> (s.env.cmd_ok /\ s.radio),
                      networks_ |-> <<>>]]

\* WifiTab::WifiTab scanning in the constructor instead of 100 ms later
tab_built_scanning(s) ==
    perform_delayed_scan(
        [update_wifi_state(
            [s EXCEPT !.wifi_tab =
                          [NoWifiTab EXCEPT
                              !.constructed = TRUE,
                              !.wifi_switch_ = s.manager_.wifi_enabled_,
                              !.scan_button_ = TRUE]],
            s.manager_.wifi_enabled_)
         EXCEPT !.wifi_tab.loading_label_ = TRUE])

\* WifiTab::WifiTab, after the manager is made
tab_built(s) ==
    AddTimer(
        [update_wifi_state(
            [s EXCEPT !.wifi_tab =
                          [NoWifiTab EXCEPT
                              !.constructed = TRUE,
                              !.wifi_switch_ = s.manager_.wifi_enabled_,
                              !.scan_button_ = TRUE]],
            s.manager_.wifi_enabled_)
         EXCEPT !.wifi_tab.loading_label_ = TRUE],
        "delayed_scan", "", -1, DelayedScanDelay)

\* Wifi::WifiTab::WifiTab
WifiTab(s) ==
    tab_built(Impl(s))

\* on_connect_clicked: "net.ssid == target_ssid && net.connected" for some
\* net of manager_->get_networks()
now_connected(s, ssid) ==
    already_connected(s, ssid)

\* a click handler of the widget of network net starts
clicked(s, net) ==
    [s EXCEPT !.whist.last.in_widget = TRUE, !.whist.last.clicked = net]

\* the handler has come to one of its steps
step(s, what) ==
    [s EXCEPT !.whist.last.steps = Append(@, what)]

\* the handler uses manager_ or get_toplevel(): if update_network_list has
\* destroyed the widget meanwhile, the use reads freed memory and may stop
\* the process
member_read(s) ==
    IF ~s.whist.last.destroyed THEN s
    ELSE IF s.env.dangling = "crash"
    THEN [s EXCEPT !.stuck = TRUE, !.whist.last.crashed = TRUE,
                   !.whist.last.used_freed = TRUE]
    ELSE [s EXCEPT !.whist.last.used_freed = TRUE]

\* the handler reads network_.secured
secured_read(s, net) ==
    IF s.whist.last.destroyed /\ s.env.dangling = "garbage"
    THEN ~net.secured ELSE net.secured

\* on_connect_clicked: manager_->connect and Glib::usleep
connect_attempt(s, net, password, what) ==
    IF member_read(s).stuck THEN member_read(s)
    ELSE Blocking(connect(step(member_read(s), what), net.ssid, password,
                          IF net.secured THEN "wpa-psk" ELSE ""))

\* on_connect_clicked: manager_->scan_networks() (every scan of one click
\* finds the same networks)
rescan(s) ==
    IF member_read(s).stuck THEN member_read(s)
    ELSE scan_networks(step(member_read(s), "rescan"), s.env.scan)

\* on_connect_clicked: connect, wait a second, scan
try_connect(s, net, password, what) ==
    rescan(connect_attempt(s, net, password, what))

\* on_connect_clicked: the dialog after the attempt with a password
verdict(s, net) ==
    IF member_read(s).stuck THEN member_read(s)
    ELSE step(member_read(s),
              IF now_connected(s, net.ssid) THEN "success" ELSE "failure")

\* on_connect_clicked: after the attempt with the saved credentials
ask_password(s, net) ==
    IF member_read(s).stuck THEN member_read(s)
    ELSE IF now_connected(s, net.ssid) THEN step(member_read(s), "success")
    ELSE IF ~secured_read(s, net) THEN member_read(s)
    ELSE IF s.env.password = "" THEN step(member_read(s), "prompt")
    ELSE verdict(try_connect(step(member_read(s), "prompt"), net,
                             s.env.password,
                             "connect_password"),
                 net)

\* WifiNetworkWidget::on_connect_clicked of the widget of network net
on_connect_clicked(s, net) ==
    IF net.connected THEN disconnect(step(clicked(s, net), "disconnect"))
    ELSE ask_password(try_connect(clicked(s, net), net, "", "connect"), net)

\* on_forget_clicked: the "Network forgotten" dialog
forgotten(s) ==
    IF member_read(s).stuck THEN member_read(s)
    ELSE step(member_read(s), "success")

\* WifiNetworkWidget::on_forget_clicked of the widget of network net
on_forget_clicked(s, net) ==
    IF s.env.confirm
    THEN forgotten(forget_network(step(clicked(s, net), "forget"), net.ssid))
    ELSE clicked(s, net)

\* create_tab_content: the constructor of the panel of tab id
panel(s, id) ==
    IF s.stuck \/ id # "wifi" \/ ~s.whist.panel THEN s ELSE WifiTab(s)

\* ------------------------------------------------------------------------
\* The handlers.  GTK emits switch-page synchronously, so the notebook
\* operations and on_tab_switch call each other.  A handler is a function
\* of the state; its statements are applied one after the other, each of
\* them leaving a blocked thread (stuck) where it is.  Field ret holds the
\* value the last insert_page returned.
\* ------------------------------------------------------------------------

RECURSIVE on_tab_switch(_, _)
RECURSIVE show_loading_indicator(_, _, _)
RECURSIVE load_tab_content_async(_, _, _)
RECURSIVE remove_page(_, _)
RECURSIVE insert_page(_, _, _, _)
RECURSIVE set_current_page(_, _)

\* the neighbour GtkNotebook makes current when page n, the current one,
\* is removed: its index after the removal, -1 if n was the only page
RemoveTarget(s, n) ==
    IF remove_policy = "next"
    THEN IF n + 1 < Len(s.pages) THEN n ELSE IF n > 0 THEN n - 1 ELSE -1
    ELSE IF n > 0 THEN n - 1 ELSE IF n + 1 < Len(s.pages) THEN n ELSE -1

\* Gtk::Notebook::remove_page: removing the current page makes a neighbour
\* current and emits switch-page with the neighbour's index after removal
remove_page(s, n) ==
    IF s.stuck \/ n < 0 \/ n >= Len(s.pages) THEN s
    ELSE IF n = s.cur
         THEN IF RemoveTarget(s, n) = -1
              THEN [s EXCEPT !.pages = RemoveAt(@, n), !.cur = -1]
              ELSE on_tab_switch([s EXCEPT !.pages = RemoveAt(@, n),
                                           !.cur = RemoveTarget(s, n)],
                                 RemoveTarget(s, n))
         ELSE IF n < s.cur
              THEN [s EXCEPT !.pages = RemoveAt(@, n), !.cur = @ - 1]
              ELSE [s EXCEPT !.pages = RemoveAt(@, n)]

\* index Gtk::Notebook::insert_page returns for a requested position
InsertPos(s, pos) ==
    IF pos < 0 \/ pos > Len(s.pages) THEN Len(s.pages) ELSE pos

\* Gtk::Notebook::insert_page: a notebook without current page switches to
\* the new page (the current page changes only if the child is visible)
insert_page(s, pg, pos, visible) ==
    IF s.stuck THEN s
    ELSE IF s.cur = -1
         THEN [on_tab_switch(
                  [s EXCEPT !.pages = InsertAt(@, InsertPos(s, pos), pg),
                            !.cur = IF visible THEN InsertPos(s, pos) ELSE -1],
                  InsertPos(s, pos))
               EXCEPT !.ret = InsertPos(s, pos)]
         ELSE [s EXCEPT !.pages = InsertAt(@, InsertPos(s, pos), pg),
                        !.cur = IF InsertPos(s, pos) <= @ THEN @ + 1 ELSE @,
                        !.ret = InsertPos(s, pos)]

\* Gtk::Notebook::set_current_page: emits switch-page unless the page is
\* current already
set_current_page(s, n) ==
    IF s.stuck \/ n < 0 \/ n >= Len(s.pages) \/ n = s.cur THEN s
    ELSE on_tab_switch([s EXCEPT !.cur = n], n)

\* load_tab_content_async, the connect_once at its end
schedule_create(s, id, page_num) ==
    IF s.stuck THEN s
    ELSE [s EXCEPT !.timers = Append(@, [kind |-> "create", id |-> id,
                                         page_num |-> page_num,
                                         due |-> IF id = "power"
                                                 THEN PowerCreateDelay
                                                 ELSE CreateDelay]),
                   !.hist.nRequests[id] = @ + 1]

\* load_tab_content_async, under its lock
load_locked(s, id, page_num) ==
    IF s.stuck THEN s
    ELSE IF s.tab_widgets_[id].loaded THEN Unlock(s)
    ELSE schedule_create(Unlock(s), id, page_num)

\* MainWindow::load_tab_content_async
load_tab_content_async(s, id, page_num) ==
    load_locked(Lock(s), id, page_num)

\* show_loading_indicator: tab_widgets_[id].loading = true
mark_loading(s, id) ==
    [s EXCEPT !.tab_widgets_[id].loading = TRUE,
              !.hist.nTransitions[id] = @ + 1]

\* show_loading_indicator: the TabInfo takes the indicator and its page
indicator_inserted(s, id) ==
    IF s.stuck THEN s
    ELSE [s EXCEPT !.tab_widgets_[id].widget = "indicator",
                   !.tab_widgets_[id].page_num = s.ret]

\* "if (get_current_page() != new_page_num) set_current_page(new_page_num)"
\* of show_loading_indicator and of create_tab_content
ensure_current(s, id) ==
    IF s.stuck THEN s
    ELSE IF s.cur # s.tab_widgets_[id].page_num
         THEN set_current_page(s, s.tab_widgets_[id].page_num)
         ELSE s

\* show_loading_indicator, under its lock
show_locked(s, id, page_num) ==
    IF s.stuck THEN s
    ELSE IF s.tab_widgets_[id].loaded \/ s.tab_widgets_[id].loading
         THEN Unlock(s)
    ELSE IF page_num < 0 \/ page_num >= Len(s.pages)
         THEN Unlock(s)
    ELSE Unlock(ensure_current(
            indicator_inserted(
               insert_page(remove_page(mark_loading(s, id), page_num),
                           [tab |-> id, widget |-> "indicator"], page_num, TRUE),
               id),
            id))

\* MainWindow::show_loading_indicator
show_loading_indicator(s, id, page_num) ==
    show_locked(Lock(s), id, page_num)

\* on_tab_switch: the first tab of tab_widgets_ on page_num
current_tab_is_initial(s, page_num) == initial_tab_

current_tab(s, page_num) ==
    FirstId({id \in Tabs : s.tab_widgets_[id].page_num = page_num})

\* on_tab_switch: the first tab of tab_widgets_ on page_num that is neither
\* loaded nor loading
tab_id_to_load(s, page_num) ==
    FirstId({id \in Tabs : /\ s.tab_widgets_[id].page_num = page_num
                           /\ needs_load(s.tab_widgets_[id])})

\* on_tab_switch: the power tab loads at once, any other tab 50 ms later
start_load(s, id, page_num) ==
    IF id = "power"
    THEN load_tab_content_async(show_loading_indicator(s, id, page_num),
                                id, page_num)
    ELSE AddTimer(s, "load", id, page_num, LoadDelay)

\* on_tab_switch: "if (!tab_id_to_load.empty())"
load_found(s, id, page_num) ==
    IF id = "" THEN s
    ELSE AddTimer(start_load([s EXCEPT !.loading = TRUE,
                                       !.hist.latchOwner = id],
                             id, page_num),
                  "unlatch", "", -1, LatchResetDelay)

\* on_tab_switch, under its lock
switch_locked(s, page_num) ==
    IF s.stuck THEN s
    ELSE load_found(Unlock(s), tab_id_to_load(s, page_num), page_num)

\* MainWindow::on_tab_switch (connected after the default handler, so the
\* notebook's current page is page_num already)
on_tab_switch(s, page_num) ==
    IF s.stuck \/ s.loading THEN s
    ELSE IF prevent_auto_loading_ /\ current_tab(s, page_num) # initial_tab_
         THEN s
    ELSE switch_locked(Lock(s), page_num)

\* create_tab_content, its catch blocks
construction_failed(s, id, outcome) ==
    IF s.stuck THEN s
    ELSE [s EXCEPT !.tab_widgets_[id].loading = FALSE,
                   !.tab_load_errors_[id] = IF outcome = "std::exception"
                                            THEN "what()" ELSE "Unknown error",
                   !.hist.throws = @ + 1,
                   !.hist.needSel = @ \cup {id}]

\* create_tab_content: the TabInfo takes the content and its page
content_inserted_not_loaded(s, id) ==
    IF s.stuck THEN s
    ELSE [s EXCEPT !.tab_widgets_[id].widget = "content",
                   !.tab_widgets_[id].page_num = s.ret,
                   !.tab_widgets_[id].loading = FALSE]

content_inserted(s, id) ==
    IF s.stuck THEN s
    ELSE [s EXCEPT !.tab_widgets_[id].widget = "content",
                   !.tab_widgets_[id].page_num = s.ret,
                   !.tab_widgets_[id].loaded = TRUE,
                   !.tab_widgets_[id].loading = FALSE]

\* create_tab_content: the indicator's page is replaced by the content
replace_page(s, id, current_page_num) ==
    ensure_current(
       Unlock(content_inserted(
          Lock(insert_page(remove_page(s, current_page_num),
                           [tab |-> id, widget |-> "content"],
                           current_page_num, FALSE)),
          id)),
       id)

\* create_tab_content, its try block: the panel's constructor
construct(s, id, outcome) ==
    IF s.stuck THEN s
    ELSE IF outcome # "ok"
         THEN Unlock(construction_failed(Lock(s), id, outcome))
         ELSE replace_page(panel(Unlock(Lock(s)), id), id,
                           s.tab_widgets_[id].page_num)

\* create_tab_content, under its first lock
create_locked(s, id, outcome) ==
    IF s.stuck THEN s
    ELSE IF s.tab_widgets_[id].loaded THEN Unlock(s)
    ELSE construct([Unlock(s) EXCEPT !.hist.nConstructions[id] = @ + 1],
                   id, outcome)

\* MainWindow::create_tab_content; outcome is what the panel's constructor
\* does: "ok", or the kind of exception it throws
create_tab_content(s, id, page_num, outcome) ==
    create_locked(Lock(s), id, outcome)

\* "show_loading_indicator(tab_id, page_num); load_tab_content_async(tab_id,
\* page_num)" of switch_to_tab and of the label's click handler
show_and_load(s, tab_id) ==
    load_tab_content_async(
        show_loading_indicator(s, tab_id, s.tab_widgets_[tab_id].page_num),
        tab_id, s.tab_widgets_[tab_id].page_num)

\* "if (!loaded && !loading)" of switch_to_tab and of the click handler
load_if_needed(s, tab_id) ==
    IF s.stuck THEN s
    ELSE IF needs_load(s.tab_widgets_[tab_id]) THEN show_and_load(s, tab_id)
    ELSE s

\* MainWindow::switch_to_tab
switch_to_tab(s, tab_id) ==
    IF s.stuck \/ tab_id \notin DOMAIN s.tab_widgets_ THEN s
    ELSE load_if_needed(set_current_page(s, s.tab_widgets_[tab_id].page_num),
                        tab_id)

\* the button-press handler create_tab_label connects to a tab's label
tab_label_clicked(s, tab_id) ==
    IF s.stuck \/ tab_id \notin DOMAIN s.tab_widgets_ THEN s
    ELSE load_if_needed(set_current_page(s, s.tab_widgets_[tab_id].page_num),
                        tab_id)

\* ------------------------------------------------------------------------
\* Time: a timer's due is the time left until its deadline
\* ------------------------------------------------------------------------

Elapsed(s, d) ==
    [s EXCEPT !.timers = [i \in 1..Len(@) |->
                            [@[i] EXCEPT !.due = Max(0, @ - d)]]]

MinDue ==
    IF timers = <<>> THEN 0
    ELSE LET dues == {timers[i].due : i \in 1..Len(timers)}
         IN  CHOOSE d \in dues : \A e \in dues : d <= e

\* GLib dispatches the expired timeouts of one priority in attach order:
\* a timer fires before every timer attached later whose deadline is not
\* earlier than its own
Fireable(i) ==
    \A j \in 1..(i - 1) : timers[j].due > timers[i].due

\* ------------------------------------------------------------------------
\* Initial state: the state the constructor of MainWindow leaves
\* ------------------------------------------------------------------------

PageNumOf(order, id) == (CHOOSE i \in 1..Len(order) : order[i] = id) - 1

NoHist ==
    [relocked |-> FALSE,
     nTransitions |-> [id \in Tabs |-> 0],
     nRequests |-> [id \in Tabs |-> 0],
     nConstructions |-> [id \in Tabs |-> 0],
     throws |-> 0,
     nUserEvents |-> 0,
     latchOwner |-> "",
     selected |-> {},
     reselected |-> {},
     needSel |-> {}]

\* the power actions with a single-key shortcut
PowerActions == {"shutdown", "reboot", "suspend", "hibernate", "lock"}

\* the letter the key handler of PowerTab tests for each action
KeyOf ==
    [a \in PowerActions |->
        CASE a = "shutdown" -> "S" [] a = "reboot" -> "R" [] a = "suspend" -> "U"
          [] a = "hibernate" -> "H" [] a = "lock" -> "L"]

\* before Power::PowerTab is realized: default keybinds, no key pressed
NoKey == [key |-> "", state |-> 0, ran |-> "none", handled |-> FALSE]

\* accels: the accelerators of accel_group_, each the button of an action
\* and the key that clicks it; dialogs, confirmed: the settings dialogs
\* shown and whether the last one ended with OK
NoPowerTab ==
    [keybinds |-> KeyOf, last |-> NoKey, accels |-> {}, dialogs |-> 0,
     confirmed |-> FALSE]

\* the audio sinks with a VolumeWidget
Sinks == {"speakers", "headphones", "input.mic", "input.headset"}

NoToggle == [sink |-> "", unchecked |-> FALSE, entries |-> 0,
             set_default_calls |-> 0]

\* before Volume::VolumeTab is constructed
NoVolumeTab ==
    [widgets |-> [k \in Sinks |-> [default_check_ |-> FALSE,
                                   is_default_ |-> FALSE]],
     default_device |-> "", last |-> NoToggle, nToggles |-> 0]

\* WifiTab before its constructor has run: ethernet_box_added_ = false, the
\* box is not a child of main_box_ (packed counts how often it is), no
\* probe thread runs and no idle callback is queued
NoEthernet ==
    [ethernet_box_added_ |-> FALSE, packed |-> 0, removed_absent |-> FALSE,
     running |-> 0, idle |-> <<>>, started |-> 0, overlapped |-> FALSE,
     delivered |-> 0, last |-> FALSE]

\* create_tabs / add_tab: one placeholder page per enabled tab
Created(order) ==
    [tab_widgets_ |-> [id \in Tabs |->
                         [widget |-> "placeholder", page_num |-> PageNumOf(order, id),
                          loaded |-> FALSE, loading |-> FALSE]],
     tab_load_errors_ |-> [id \in Tabs |-> NoError],
     pages |-> [i \in 1..Len(order) |-> [tab |-> order[i], widget |-> "placeholder"]],
     cur |-> -1, loading |-> FALSE, timers |-> <<>>,
     tab_mutex_ |-> FALSE, stuck |-> FALSE, hist |-> NoHist, ub |-> "hang",
     ret |-> -1,
     radio |-> TRUE, manager_ |-> NoManager, wifi_tab |-> NoWifiTab,
     workers |-> <<>>, whist |-> NoWifiHist,
     power_tab |-> NoPowerTab, volume_tab |-> NoVolumeTab, tick |-> FALSE,
     ethernet |-> NoEthernet,
     env |-> QuietEnv, thread |-> "ui"]

\* MainWindow::MainWindow
Constructed(order, initial) ==
    IF initial = "" THEN Created(order)
    ELSE switch_to_tab([Created(order) EXCEPT !.hist.selected = {initial}], initial)

Init ==
    /\ tab_order \in TabOrders
    /\ initial_tab_ \in InitialTabs
    /\ prevent_auto_loading_ = (initial_tab_ # "")
    /\ remove_policy \in {"next", "prev"}
    /\ LET s == Constructed(tab_order, initial_tab_)
       IN  /\ tab_widgets_ = s.tab_widgets_
           /\ tab_load_errors_ = s.tab_load_errors_
           /\ pages = s.pages
           /\ cur = s.cur
           /\ loading = s.loading
           /\ timers = s.timers
           /\ tab_mutex_ = s.tab_mutex_
           /\ stuck = s.stuck
           /\ hist = s.hist
           /\ radio = s.radio
           /\ manager_ = s.manager_
           /\ wifi_tab = s.wifi_tab
           /\ workers = s.workers
           /\ whist = s.whist
           /\ power_tab = s.power_tab
           /\ volume_tab = s.volume_tab
           /\ tick = s.tick
           /\ ethernet = s.ethernet

\* ------------------------------------------------------------------------
\* Actions: one per event the UI thread's main loop dispatches
\* ------------------------------------------------------------------------

\* the state a user event finds, d after the previous step
UserEvent(id, d, ub) ==
    [Elapsed(S, d) EXCEPT
        !.ub = ub,
        !.hist.nUserEvents = @ + 1,
        !.hist.selected = @ \cup {id},
        !.hist.reselected = @ \cup (IF State(id) = "Loaded" THEN {id} ELSE {}),
        !.hist.needSel = @ \ {id},
        !.whist.last = NoLast]

CanAct(d) ==
    /\ ~stuck
    /\ cur # -1
    /\ hist.nUserEvents < MaxUserEvents
    /\ d <= MinDue

\* the window is shown: the notebook makes its first page current
NotebookShown ==
    /\ ~stuck
    /\ cur = -1
    /\ Assign(on_tab_switch(
          [S EXCEPT !.cur = 0, !.hist.selected = @ \cup {pages[1].tab},
                    !.tick = ~@], 0))

\* left click on the label of tab id
TabLabelClicked(id, d, ub) ==
    /\ CanAct(d)
    /\ Assign(tab_label_clicked(UserEvent(id, d, ub), id))

\* the user changes the page through the notebook itself (keyboard, scroll)
SwitchPage(p, d, ub) ==
    /\ CanAct(d)
    /\ p # cur
    /\ Assign(set_current_page(UserEvent(pages[p + 1].tab, d, ub), p))

\* a call of the public switch_to_tab
SwitchToTab(id, d, ub) ==
    /\ CanAct(d)
    /\ Assign(switch_to_tab(UserEvent(id, d, ub), id))

\* the state a timer callback finds: the timer is gone, its delay has passed
TimerEvent(i, ub) ==
    [Elapsed([S EXCEPT !.timers = RemoveAt(@, i - 1)], timers[i].due) EXCEPT
        !.ub = ub, !.whist.last = NoLast, !.tick = ~@]

\* the 50 ms timer of on_tab_switch
LoadTimerFires(i, ub) ==
    /\ ~stuck
    /\ timers[i].kind = "load"
    /\ Fireable(i)
    /\ LET s1 == show_loading_indicator(TimerEvent(i, ub), timers[i].id,
                                        timers[i].page_num)
       IN  Assign(load_tab_content_async(s1, timers[i].id, timers[i].page_num))

\* the 100 ms timer of on_tab_switch
LatchTimerFires(i) ==
    /\ ~stuck
    /\ timers[i].kind = "unlatch"
    /\ Fireable(i)
    /\ Assign([TimerEvent(i, "hang") EXCEPT !.loading = FALSE])

\* the timer of load_tab_content_async
CreateTimerFires(i, outcome, ub) ==
    /\ ~stuck
    /\ timers[i].kind = "create"
    /\ Fireable(i)
    /\ outcome # "ok" => hist.throws < MaxThrows
    /\ Assign(create_tab_content(TimerEvent(i, ub), timers[i].id,
                                 timers[i].page_num, outcome))

Next ==
    \/ NotebookShown
    \/ \E id \in Tabs, d \in Elapse, ub \in RelockOutcomes : TabLabelClicked(id, d, ub)
    \/ \E p \in 0..(Len(pages) - 1), d \in Elapse, ub \in RelockOutcomes : SwitchPage(p, d, ub)
    \/ \E id \in Tabs, d \in Elapse, ub \in RelockOutcomes : SwitchToTab(id, d, ub)
    \/ \E i \in 1..Len(timers), ub \in RelockOutcomes : LoadTimerFires(i, ub)
    \/ \E i \in 1..Len(timers) : LatchTimerFires(i)
    \/ \E i \in 1..Len(timers), outcome \in {"ok"} \cup Exceptions, ub \in RelockOutcomes :
          CreateTimerFires(i, outcome, ub)

Spec == Init /\ [][Next]_vars

\* the main loop dispatches one callback that is due: the first switch-page
\* of the shown notebook or an expired timeout
Dispatch ==
    /\ ~stuck
    /\ (cur = -1 \/ \E i \in 1..Len(timers) : Fireable(i))
    /\ tick' = ~tick

\* the main loop runs: whatever is due is dispatched; nothing obliges the
\* user to act
LiveSpec == Init /\ [][Next]_vars /\ WF_tick(Dispatch)


\* ------------------------------------------------------------------------
\* The WiFi panel: the main window with the WiFi tab selected, the events
\* of Wifi::WifiTab and the threads of scan_networks_async
\* ------------------------------------------------------------------------

WifiInit ==
    /\ tab_order \in TabOrders
    /\ initial_tab_ \in InitialTabs
    /\ prevent_auto_loading_ = (initial_tab_ # "")
    /\ remove_policy = "next"
    /\ radio \in BOOLEAN
    /\ LET s == Constructed(tab_order, initial_tab_)
       IN  /\ tab_widgets_ = s.tab_widgets_
           /\ tab_load_errors_ = s.tab_load_errors_
           /\ pages = s.pages
           /\ cur = s.cur
           /\ loading = s.loading
           /\ timers = s.timers
           /\ tab_mutex_ = s.tab_mutex_
           /\ stuck = s.stuck
           /\ hist = s.hist
           /\ manager_ = s.manager_
           /\ wifi_tab = s.wifi_tab
           /\ workers = s.workers
           /\ whist = [s.whist EXCEPT !.panel = TRUE]
           /\ power_tab = s.power_tab
           /\ volume_tab = s.volume_tab
           /\ tick = s.tick
           /\ ethernet = s.ethernet

\* the state a user event on the WiFi panel finds, d after the previous
\* step; env is what the commands and dialogs of the handler will answer
WifiEvent(d, env) ==
    [Elapsed(S, d) EXCEPT !.env = env,
                          !.whist.last = NoLast,
                          !.whist.nWifiEvents = @ + 1]

\* the WiFi panel is the page the user sees
WifiCanAct(d) ==
    /\ ~stuck
    /\ wifi_tab.constructed
    /\ cur # -1
    /\ pages[cur + 1] = [tab |-> "wifi", widget |-> "content"]
    /\ whist.nWifiEvents < MaxWifiEvents
    /\ d <= MinDue

\* the user selects the WiFi tab
WifiTabSelected(d, ub) ==
    /\ State("wifi") = "Placeholder"
    /\ TabLabelClicked("wifi", d, ub)

\* the creation timer of load_tab_content_async; the constructor's commands
\* answer env
PanelTimerFires(i, env, ub) ==
    /\ ~stuck
    /\ timers[i].kind = "create"
    /\ Fireable(i)
    /\ Assign(create_tab_content([TimerEvent(i, ub) EXCEPT !.env = env],
                                 timers[i].id, timers[i].page_num, "ok"))

\* the 100 ms timer of the constructor
DelayedScanFires(i) ==
    /\ ~stuck
    /\ timers[i].kind = "delayed_scan"
    /\ Fireable(i)
    /\ Assign(perform_delayed_scan(TimerEvent(i, "hang")))

\* the 2000 ms timer of a scan
ScanReenableFires(i) ==
    /\ ~stuck
    /\ timers[i].kind = "scan_reenable"
    /\ Fireable(i)
    /\ Assign([TimerEvent(i, "hang") EXCEPT !.wifi_tab.scan_button_ = TRUE])

\* the 1000 ms timer of on_wifi_switch_toggled
SwitchReenableFires(i) ==
    /\ ~stuck
    /\ timers[i].kind = "switch_reenable"
    /\ Fireable(i)
    /\ Assign([TimerEvent(i, "hang") EXCEPT !.wifi_tab.switch_sensitive = TRUE])

\* click on scan_button_
ScanClicked(d) ==
    /\ WifiCanAct(d)
    /\ wifi_tab.scan_button_
    /\ whist.nScans < MaxScans
    /\ Assign(scan_clicked(WifiEvent(d, QuietEnv)))

\* the user flips wifi_switch_
SwitchToggled(d, env) ==
    /\ WifiCanAct(d)
    /\ wifi_tab.switch_sensitive
    /\ Assign(on_wifi_switch_toggled(
          [WifiEvent(d, env) EXCEPT !.wifi_tab.wifi_switch_ = ~@]))

\* click on the connect button of the k-th network widget
ConnectClicked(k, d, env) ==
    /\ WifiCanAct(d)
    /\ Assign(on_connect_clicked(WifiEvent(d, env), wifi_tab.widgets_[k]))

\* click on the forget button of the k-th network widget
ForgetClicked(k, d, env) ==
    /\ WifiCanAct(d)
    /\ Assign(on_forget_clicked(WifiEvent(d, env), wifi_tab.widgets_[k]))

\* the state a step of the k-th scanning thread finds
WorkerEvent(k) ==
    [S EXCEPT !.thread = "worker",
              !.workers = RemoveAt(@, k - 1),
              !.whist.last = [NoLast EXCEPT !.stale = workers[k].stale]]

\* the thread's scan has delivered a list: it is the scan applied last
applied(s, seq) ==
    [s EXCEPT !.whist.last.applied = seq,
              !.whist.maxApplied = Max(@, seq)]

\* a scanning thread enters scan_networks: up to popen
WorkerBegins(k) ==
    /\ workers[k].pc = "start"
    /\ IF manager_.wifi_enabled_
       THEN Assign([cleared(requeried(S)) EXCEPT
                       !.thread = "worker",
                       !.workers[k].pc = "popen",
                       !.whist.last = [NoLast EXCEPT
                                          !.requeried = TRUE,
                                          !.stale = workers[k].stale]])
       ELSE Assign(applied(scan_disabled(requeried(WorkerEvent(k))),
                           workers[k].seq))

\* a scanning thread leaves scan_networks: the query ends as o
WorkerCompletes(k, o) ==
    /\ workers[k].pc = "popen"
    /\ Assign(IF o.kind = "popen_failed" THEN scan_parse(WorkerEvent(k), o)
              ELSE applied(scan_parse(WorkerEvent(k), o), workers[k].seq))

WifiNext ==
    \/ NotebookShown
    \/ \E d \in Elapse, ub \in RelockOutcomes : WifiTabSelected(d, ub)
    \/ \E i \in 1..Len(timers), ub \in RelockOutcomes : LoadTimerFires(i, ub)
    \/ \E i \in 1..Len(timers) : LatchTimerFires(i)
    \/ \E i \in 1..Len(timers), env \in PanelEnvs, ub \in RelockOutcomes :
          PanelTimerFires(i, env, ub)
    \/ \E i \in 1..Len(timers) : DelayedScanFires(i)
    \/ \E i \in 1..Len(timers) : ScanReenableFires(i)
    \/ \E i \in 1..Len(timers) : SwitchReenableFires(i)
    \/ \E d \in WifiElapse : ScanClicked(d)
    \/ \E d \in WifiElapse, env \in RadioEnvs : SwitchToggled(d, env)
    \/ \E k \in 1..Len(wifi_tab.widgets_), d \in WifiElapse, env \in ConnectEnvs :
          ConnectClicked(k, d, env)
    \/ \E k \in 1..Len(wifi_tab.widgets_), d \in WifiElapse, env \in ForgetEnvs :
          ForgetClicked(k, d, env)
    \/ \E k \in 1..Len(workers) : WorkerBegins(k)
    \/ \E k \in 1..Len(workers), o \in ScanOutcomes : WorkerCompletes(k, o)

WifiSpec == WifiInit /\ [][WifiNext]_vars

\* ------------------------------------------------------------------------
\* update_network_list on the lists a scan can deliver
\* ------------------------------------------------------------------------

\* rows nmcli can print: any mix of connected and signal strength
Rows ==
    {[ssid |-> n.ssid, signal_strength |-> g, connected |-> c,
      secured |-> n.secured] :
        n \in {NetHome, NetCafe}, g \in {NetHome.signal_strength,
                                          NetCafe.signal_strength},
        c \in BOOLEAN}

NetLists == UNION {[1..n -> Rows] : n \in 0..MaxNets}

\* the panel as constructed, the manager holding the list nets
Listed(nets, enabled) ==
    [tab_built([Created(tab_order) EXCEPT !.whist.panel = TRUE]) EXCEPT
        !.radio = enabled,
        !.manager_ = [wifi_enabled_ |-> enabled, networks_ |-> nets]]

ListInit ==
    /\ tab_order \in TabOrders
    /\ initial_tab_ = ""
    /\ prevent_auto_loading_ = FALSE
    /\ remove_policy = "next"
    /\ \E nets \in NetLists, enabled \in BOOLEAN :
          LET s == Listed(nets, enabled)
          IN  /\ tab_widgets_ = s.tab_widgets_
              /\ tab_load_errors_ = s.tab_load_errors_
              /\ pages = s.pages
              /\ cur = s.cur
              /\ loading = s.loading
              /\ timers = s.timers
              /\ tab_mutex_ = s.tab_mutex_
              /\ stuck = s.stuck
              /\ hist = s.hist
              /\ radio = s.radio
              /\ manager_ = s.manager_
              /\ wifi_tab = s.wifi_tab
              /\ workers = s.workers
              /\ whist = s.whist
              /\ power_tab = s.power_tab
              /\ volume_tab = s.volume_tab
              /\ tick = s.tick
              /\ ethernet = s.ethernet

\* the manager publishes its list
ListPublished ==
    /\ whist.last.update_callbacks = 0
    /\ Assign(update_callback_(S))

ListSpec == ListInit /\ [][ListPublished]_vars

\* ------------------------------------------------------------------------
\* Power::PowerTab: the key press handler installed on the window when the
\* tab is realized
\* ------------------------------------------------------------------------

\* gdk_keyval_to_unicode(event->keyval) of the keys pressed
Letters == {"s", "S", "r", "R", "u", "U", "h", "H", "l", "L", "x"}

\* event->state: no modifier, Shift, Control
Modifiers == {0, 1, 4}

\* what get_keybind can return for action a
KeybindsOf(a) == {KeyOf[a], "R", "X"}

UpperCase(key) ==
    CASE key \in {"s", "S"} -> "S" [] key \in {"r", "R"} -> "R"
      [] key \in {"u", "U"} -> "U" [] key \in {"h", "H"} -> "H"
      [] key \in {"l", "L"} -> "L" [] OTHER -> "X"

\* "notebook->get_nth_page(notebook->get_current_page()) != this"
power_is_current(s) ==
    /\ s.cur # -1
    /\ s.pages[s.cur + 1] = [tab |-> "power", widget |-> "content"]

\* the if / else-if chain over the letters: the action whose letter was
\* pressed runs if its keybind is that letter
chain(s, key) ==
    IF \E a \in PowerActions :
          KeyOf[a] = UpperCase(key) /\ s.power_tab.keybinds[a] = KeyOf[a]
    THEN [s EXCEPT !.power_tab.last.ran =
                      CHOOSE a \in PowerActions : KeyOf[a] = UpperCase(key),
                   !.power_tab.last.handled = TRUE]
    ELSE s

\* the handler without its test of the current page
key_press_any_page(s, key, state) ==
    IF state = 0 THEN chain(s, key) ELSE s

\* the key press handler of PowerTab::PowerTab
key_press(s, key, state) ==
    IF ~power_is_current(s) THEN s
    ELSE IF state = 0 THEN chain(s, key)
    ELSE s

\* PowerTab::setup_action_keybinds: for every action with a keybind that
\* is not empty, add_accelerator of the key parse_keybind makes of it (for
\* a single character the key of that character, no modifier); nothing is
\* removed from accel_group_
setup_action_keybinds(s) ==
    [s EXCEPT !.power_tab.accels =
        @ \cup {[action |-> a, key |-> s.power_tab.keybinds[a]] :
                   a \in {b \in PowerActions : s.power_tab.keybinds[b] # ""}}]

\* PowerTab::on_settings_clicked: the dialog ends with OK and the keybinds
\* binds, or is cancelled
on_settings_clicked(s, ok, binds) ==
    IF ok
    THEN setup_action_keybinds(
             [s EXCEPT !.power_tab.keybinds = binds,
                       !.power_tab.dialogs = @ + 1,
                       !.power_tab.confirmed = TRUE])
    ELSE [s EXCEPT !.power_tab.dialogs = @ + 1,
                   !.power_tab.confirmed = FALSE]

\* the window with the Power tab loaded and realized, page c current
Realized(c, binds) ==
    setup_action_keybinds(
        [Created(tab_order) EXCEPT
            !.tab_widgets_["power"] = [@ EXCEPT !.widget = "content",
                                                !.loaded = TRUE],
            !.pages[PageNumOf(tab_order, "power") + 1].widget = "content",
            !.cur = c,
            !.power_tab.keybinds = binds])

KeyInit ==
    /\ tab_order \in TabOrders
    /\ initial_tab_ = ""
    /\ prevent_auto_loading_ = FALSE
    /\ remove_policy = "next"
    /\ \E c \in 0..(Len(tab_order) - 1),
          binds \in [PowerActions -> {"S", "R", "U", "H", "L", "X"}] :
          /\ \A a \in PowerActions : binds[a] \in KeybindsOf(a)
          /\ LET s == Realized(c, binds)
             IN  /\ tab_widgets_ = s.tab_widgets_
                 /\ tab_load_errors_ = s.tab_load_errors_
                 /\ pages = s.pages
                 /\ cur = s.cur
                 /\ loading = s.loading
                 /\ timers = s.timers
                 /\ tab_mutex_ = s.tab_mutex_
                 /\ stuck = s.stuck
                 /\ hist = s.hist
                 /\ radio = s.radio
                 /\ manager_ = s.manager_
                 /\ wifi_tab = s.wifi_tab
                 /\ workers = s.workers
                 /\ whist = s.whist
                 /\ power_tab = s.power_tab
                 /\ volume_tab = s.volume_tab
                 /\ tick = s.tick
                 /\ ethernet = s.ethernet

\* a key is pressed in the window
KeyPressed(key, state) ==
    Assign(key_press([S EXCEPT !.power_tab.last =
                                  [NoKey EXCEPT !.key = key, !.state = state]],
                     key, state))

\* the user opens the settings dialog of the Power tab and ends it
SettingsClicked(ok, binds) ==
    /\ power_is_current(S)
    /\ power_tab.dialogs < MaxDialogs
    /\ Assign(on_settings_clicked(S, ok, binds))

\* the dialog leaves every keybind as it was built in, or changed to "X",
\* or, for lock, empty
AccelSpec ==
    KeyInit /\ [][\E ok \in BOOLEAN, changed \in SUBSET PowerActions,
                     none \in {"", "lock"} :
                     SettingsClicked(ok,
                         [a \in PowerActions |->
                             IF a = none THEN ""
                             ELSE IF a \in changed THEN "X"
                             ELSE KeyOf[a]])]_vars

KeySpec ==
    KeyInit /\ [][\E key \in Letters, state \in Modifiers :
                     KeyPressed(key, state)]_vars

\* ------------------------------------------------------------------------
\* WifiTab::update_ethernet_status: the probes of the ethernet state.  The
\* box and its flag are touched by nothing else, so the probes are taken
\* on their own, each caller of update_ethernet_status being one event.
\* ------------------------------------------------------------------------

\* update_ethernet_status: Glib::Thread::create of one more probe
update_ethernet_status(e) ==
    [e EXCEPT !.running = @ + 1, !.started = @ + 1,
              !.overlapped = @ \/ e.running > 0 \/ e.idle # <<>>]

\* the idle callback without its tests of ethernet_box_added_
deliver_unguarded(e, connected) ==
    IF connected
    THEN [e EXCEPT !.packed = @ + 1, !.ethernet_box_added_ = TRUE]
    ELSE [e EXCEPT !.packed = IF @ > 0 THEN @ - 1 ELSE 0,
                   !.removed_absent = @ \/ e.packed = 0,
                   !.ethernet_box_added_ = FALSE]

\* the idle callback of a probe that found ethernet connected or not
deliver(e, connected) ==
    IF connected
    THEN IF ~e.ethernet_box_added_
         THEN [e EXCEPT !.packed = @ + 1, !.ethernet_box_added_ = TRUE]
         ELSE e
    ELSE IF e.ethernet_box_added_
         THEN [e EXCEPT !.packed = IF @ > 0 THEN @ - 1 ELSE 0,
                        !.removed_absent = @ \/ e.packed = 0,
                        !.ethernet_box_added_ = FALSE]
         ELSE e

\* WifiTab::WifiTab has run: its last statement started the first probe
EthInit ==
    /\ tab_order \in TabOrders
    /\ initial_tab_ = ""
    /\ prevent_auto_loading_ = FALSE
    /\ remove_policy = "next"
    /\ LET s == [Created(tab_order) EXCEPT
                    !.ethernet = update_ethernet_status(NoEthernet)]
       IN  /\ tab_widgets_ = s.tab_widgets_
           /\ tab_load_errors_ = s.tab_load_errors_
           /\ pages = s.pages
           /\ cur = s.cur
           /\ loading = s.loading
           /\ timers = s.timers
           /\ tab_mutex_ = s.tab_mutex_
           /\ stuck = s.stuck
           /\ hist = s.hist
           /\ radio = s.radio
           /\ manager_ = s.manager_
           /\ wifi_tab = s.wifi_tab
           /\ workers = s.workers
           /\ whist = s.whist
           /\ power_tab = s.power_tab
           /\ volume_tab = s.volume_tab
           /\ tick = s.tick
           /\ ethernet = s.ethernet

\* update_network_list or a scan re-enable timer calls
\* update_ethernet_status
ProbeStarted ==
    /\ ethernet.started < MaxProbes
    /\ Assign([S EXCEPT !.ethernet = update_ethernet_status(@)])

\* a probe thread: is_ethernet_connected returns connected, the thread
\* queues its idle callback and ends
ProbeQueried(connected) ==
    /\ ethernet.running > 0
    /\ Assign([S EXCEPT !.ethernet.running = @ - 1,
                        !.ethernet.idle = Append(@, connected)])

\* the main loop runs the idle callback queued first
ProbeDelivered ==
    /\ ethernet.idle # <<>>
    /\ Assign([S EXCEPT !.ethernet =
                  [deliver(ethernet, Head(ethernet.idle)) EXCEPT
                      !.idle = Tail(@), !.delivered = @ + 1,
                      !.last = Head(ethernet.idle)]])

EthSpec ==
    EthInit /\ [][\/ ProbeStarted
                  \/ \E connected \in BOOLEAN : ProbeQueried(connected)
                  \/ ProbeDelivered]_vars

\* ------------------------------------------------------------------------
\* Volume::VolumeWidget: the "Set as default" check box
\* ------------------------------------------------------------------------

RECURSIVE on_default_toggled(_, _)

\* Gtk::CheckButton::set_active of default_check_: a value that differs
\* flips the box and emits toggled, which runs the connected handlers
\* before it returns; the empty slot connected meanwhile does nothing and
\* blocks nothing
default_check_set_active(s, k, v) ==
    IF s.volume_tab.widgets[k].default_check_ = v THEN s
    ELSE on_default_toggled(
             [s EXCEPT !.volume_tab.widgets[k].default_check_ = v], k)

\* VolumeManager::set_default_device as the widget calls it
set_default_device(s, k) ==
    [s EXCEPT !.volume_tab.default_device = k,
              !.volume_tab.last.set_default_calls = @ + 1]

entered(s) == [s EXCEPT !.volume_tab.last.entries = @ + 1]

\* VolumeWidget::on_default_toggled of the widget of device k
on_default_toggled(s, k) ==
    IF /\ ~s.volume_tab.widgets[k].default_check_
       /\ s.volume_tab.widgets[k].is_default_
    THEN default_check_set_active(entered(s), k, TRUE)
    ELSE IF s.volume_tab.widgets[k].default_check_
    THEN [set_default_device(entered(s), k) EXCEPT
              !.volume_tab.widgets[k].is_default_ = TRUE]
    ELSE entered(s)

\* is_input_device_: the name contains "input" or "source"
Inputs == {"input.mic", "input.headset"}

\* VolumeWidget::VolumeWidget for every device: sink.is_default holds for
\* the default output o and the default input i
Widgets(o, i) ==
    [k \in Sinks |-> [default_check_ |-> k \in {o, i},
                      is_default_ |-> k \in {o, i}]]

VolumeInit ==
    /\ tab_order \in TabOrders
    /\ initial_tab_ = ""
    /\ prevent_auto_loading_ = FALSE
    /\ remove_policy = "next"
    /\ \E o \in Sinks \ Inputs, i \in Inputs :
          LET s == [Created(tab_order) EXCEPT
                       !.volume_tab.widgets = Widgets(o, i)]
          IN  /\ tab_widgets_ = s.tab_widgets_
              /\ tab_load_errors_ = s.tab_load_errors_
              /\ pages = s.pages
              /\ cur = s.cur
              /\ loading = s.loading
              /\ timers = s.timers
              /\ tab_mutex_ = s.tab_mutex_
              /\ stuck = s.stuck
              /\ hist = s.hist
              /\ radio = s.radio
              /\ manager_ = s.manager_
              /\ wifi_tab = s.wifi_tab
              /\ workers = s.workers
              /\ whist = s.whist
              /\ power_tab = s.power_tab
              /\ volume_tab = s.volume_tab
              /\ tick = s.tick
              /\ ethernet = s.ethernet

\* the user clicks the check box of device k: the box flips and toggled
\* is emitted
DefaultToggled(k) ==
    /\ volume_tab.nToggles < MaxToggles
    /\ Assign(default_check_set_active(
                  [S EXCEPT !.volume_tab.nToggles = @ + 1,
                            !.volume_tab.last =
                                [NoToggle EXCEPT
                                    !.sink = k,
                                    !.unchecked =
                                        volume_tab.widgets[k].default_check_]],
                  k, ~volume_tab.widgets[k].default_check_))

VolumeSpec == VolumeInit /\ [][\E k \in Sinks : DefaultToggled(k)]_vars

\* ------------------------------------------------------------------------
\* Claims
\* ------------------------------------------------------------------------

Allowed(a, b) ==
    \/ a = b
    \/ <<a, b>> \in {<<"Placeholder", "Loading">>, <<"Loading", "Loaded">>,
                     <<"Loading", "Failed">>, <<"Failed", "Loading">>}

\* C1: in every step every slot keeps its lifecycle state or moves along
\* Placeholder->Loading, Loading->Loaded, Loading->Failed or Failed->Loading
C1_OnlyLifecycleTransitions ==
    [][\A id \in Tabs : Allowed(State(id), State(id)')]_vars

CreateTimers(id) ==
    {i \in 1..Len(timers) : timers[i].kind = "create" /\ timers[i].id = id}

\* C2: no slot ever has more than one construction request in flight
C2_OneLoadInFlight ==
    \A id \in Tabs : Cardinality(CreateTimers(id)) <= 1

\* C3: in every step, a construction request is issued for a slot exactly
\* when the slot moves into Loading
C3_OneRequestPerTransition ==
    [][\A id \in Tabs :
          hist.nRequests'[id] - hist.nRequests[id]
              = hist.nTransitions'[id] - hist.nTransitions[id]]_vars

\* a selection of slot id by click, switch_to_tab or page change
Selects(id) ==
    \E d \in Elapse, ub \in RelockOutcomes :
        \/ TabLabelClicked(id, d, ub)
        \/ SwitchToTab(id, d, ub)
        \/ SwitchPage(tab_widgets_[id].page_num, d, ub)

\* C4: a selection of a Loaded slot makes its page current and changes
\* nothing else: no slot's TabInfo or page, no timer scheduled, no
\* construction, latch untouched
C4_SelectLoadedIdempotent ==
    [][\A id \in Tabs :
          (State(id) = "Loaded" /\ Selects(id)) =>
              /\ tab_widgets_' = tab_widgets_
              /\ pages' = pages
              /\ tab_load_errors_' = tab_load_errors_
              /\ Len(timers') = Len(timers)
              /\ loading' = loading
              /\ hist.nRequests' = hist.nRequests
              /\ hist.nTransitions' = hist.nTransitions
              /\ hist.nConstructions' = hist.nConstructions
              /\ cur' = tab_widgets_[id].page_num
              /\ ~stuck']_vars

\* a Loaded slot has been selected again and is Loaded and current
C4_Witness ==
    \E id \in Tabs :
        /\ id \in hist.reselected
        /\ State(id) = "Loaded"
        /\ tab_widgets_[id].widget = "content"
        /\ cur = tab_widgets_[id].page_num

\* C5: while the UI thread runs, a slot that has left Placeholder, or whose
\* page is current, was selected by the user
C5_OnlySelectedSlotsLoad ==
    ~stuck =>
        \A b \in Tabs :
            (State(b) # "Placeholder" \/ (cur # -1 /\ pages[cur + 1].tab = b))
                => b \in hist.selected

\* C6: the step that releases the latch leaves the slot whose selection
\* set it Loaded or Failed
C6_LatchReleasedAfterTransition ==
    [][(loading /\ ~loading') =>
          StateOf([tab_widgets_ |-> tab_widgets_', tab_load_errors_ |-> tab_load_errors_'],
                  hist.latchOwner) \in {"Loaded", "Failed"}]_vars

\* C7: the UI thread never locks tab_mutex_ while it holds it
C7_NoRelock ==
    ~hist.relocked

\* C8: panel content is constructed for a slot only in a step that finds
\* the slot Loading
C8_CompletionOnlyWhileLoading ==
    [][\A id \in Tabs :
          hist.nConstructions'[id] > hist.nConstructions[id]
              => State(id) = "Loading"]_vars

\* C9: a construction that throws leaves the slot Failed with a diagnostic
\* and the UI thread running, and a click on (or switch_to_tab to) a Failed
\* slot makes it Loading with the UI thread running
C9_FailedThenRetry ==
    [][\A id \in Tabs :
          /\ (hist.throws' > hist.throws
                /\ hist.nConstructions'[id] > hist.nConstructions[id])
               => /\ State(id)' = "Failed"
                  /\ tab_load_errors_'[id] \notin {NoError, ""}
                  /\ ~stuck'
          /\ (State(id) = "Failed"
                /\ \E d \in Elapse, ub \in RelockOutcomes :
                      TabLabelClicked(id, d, ub) \/ SwitchToTab(id, d, ub))
               => /\ State(id)' = "Loading"
                  /\ ~stuck']_vars

\* C10: no construction runs for a slot whose last construction failed
\* unless the slot has been selected since
C10_NoAutomaticRetry ==
    [][\A id \in Tabs :
          hist.nConstructions'[id] > hist.nConstructions[id]
              => id \notin hist.needSel]_vars

\* C11: when the program was started with an initial tab, a slot other than
\* the initial one leaves Placeholder only in a step that is a click on its
\* label or a switch_to_tab call for it, whatever switch-page events occur
C11_InitialTabSuppressesAutoLoad ==
    [][\A id \in Tabs :
          (/\ initial_tab_ # ""
           /\ id # initial_tab_
           /\ State(id) = "Placeholder"
           /\ State(id)' # "Placeholder")
              => \E d \in Elapse, ub \in RelockOutcomes :
                    TabLabelClicked(id, d, ub) \/ SwitchToTab(id, d, ub)]_vars

\* started with an initial tab that is Loaded by now, the user has moved to
\* the page of another slot by a switch-page event, and that slot and every
\* other one is still a Placeholder
C11_Witness ==
    /\ initial_tab_ # ""
    /\ State(initial_tab_) = "Loaded"
    /\ cur # -1
    /\ pages[cur + 1].tab # initial_tab_
    /\ pages[cur + 1].tab \in hist.selected
    /\ \A id \in Tabs \ {initial_tab_} : State(id) = "Placeholder"

\* C12: a slot's widget is the constructed panel exactly when the slot is
\* Loaded
C12_ContentIffLoaded ==
    \A id \in Tabs :
        (tab_widgets_[id].widget = "content") <=> tab_widgets_[id].loaded

\* a slot is Loaded and holds its panel while another one shows its
\* loading indicator
C12_Witness ==
    \E id, other \in Tabs :
        /\ tab_widgets_[id].loaded
        /\ tab_widgets_[id].widget = "content"
        /\ pages[tab_widgets_[id].page_num + 1].widget = "content"
        /\ tab_widgets_[other].widget = "indicator"
        /\ ~tab_widgets_[other].loaded

\* C13: a slot has an entry in tab_load_errors_ only while it is Failed
C13_ErrorOnlyWhileFailed ==
    \A id \in Tabs :
        tab_load_errors_[id] # NoError => State(id) = "Failed"

C15_FailedProbeKeepsSnapshot ==
    wifi_tab.constructed =>
        \A o \in ScanOutcomes :
            o.kind # "ok" => scan_networks(S, o).manager_ = manager_

\* C16: a step in which a scan failed has notified the observer of an
\* error, and has made no update callback.
C16_FailedProbeIsErrorEvent ==
    whist.last.scan = "failed" =>
        /\ whist.last.error_events > 0
        /\ whist.last.update_callbacks = 0

C18_ActionThenRequery ==
    whist.last.op # "none" => whist.last.requeried

C20_UiNeverBlocks ==
    ~whist.last.blocked

C22_SwitchShowsManagerState ==
    wifi_tab.constructed =>
        /\ wifi_tab.wifi_switch_ = manager_.wifi_enabled_
        /\ wifi_tab.wifi_status_label_ =
              (IF manager_.wifi_enabled_ THEN "Enabled" ELSE "Disabled")

C24_StateCallbackOnChange ==
    (whist.last.op \in {"enable_wifi", "disable_wifi"} /\ whist.last.cmd = "ok")
       => /\ manager_.wifi_enabled_ = (whist.last.op = "enable_wifi")
          /\ whist.last.state_callbacks = 1
          /\ whist.last.state_value = manager_.wifi_enabled_
          /\ whist.last.state_first
          /\ whist.last.op = "disable_wifi" => manager_.networks_ = <<>>

C24_Witness ==
    /\ whist.last.op = "enable_wifi"
    /\ whist.last.cmd = "ok"
    /\ whist.last.state_callbacks = 1
    /\ whist.last.update_callbacks = 1
    /\ wifi_tab.wifi_status_label_ = "Enabled"
    /\ manager_.networks_ # <<>>

\* C25: when the radio command of enable_wifi or disable_wifi fails, the
\* enabled flag and the network list keep their values and neither callback
\* is made.
C25_FailedRadioCommandChangesNothing ==
    [][whist'.last.cmd = "failed"
          => /\ manager_' = manager_
             /\ whist'.last.state_callbacks = 0
             /\ whist'.last.update_callbacks = 0]_vars

C25_Witness ==
    /\ whist.last.op = "disable_wifi"
    /\ whist.last.cmd = "failed"
    /\ manager_.wifi_enabled_
    /\ manager_.networks_ # <<>>
    /\ ~wifi_tab.wifi_switch_

\* C26: update_network_list shows the connected networks first and, among
\* networks of the same connected status, non-increasing signal strength;
\* the widgets are a permutation of the list passed in, unless the list is
\* empty and WiFi is enabled: then only the "No wireless networks found"
\* label is shown.
C26_SortedPermutation ==
    whist.last.update_callbacks > 0 =>
        LET shown == wifi_tab.widgets_
            nets == whist.last.listed
        IN  IF nets = <<>> /\ manager_.wifi_enabled_
            THEN wifi_tab.no_networks_label_ /\ shown = <<>>
            ELSE /\ ~wifi_tab.no_networks_label_
                 /\ Len(shown) = Len(nets)
                 /\ \A x \in Rows :
                       Cardinality({i \in 1..Len(shown) : shown[i] = x})
                          = Cardinality({i \in 1..Len(nets) : nets[i] = x})
                 /\ \A i, j \in 1..Len(shown) :
                       i < j =>
                          /\ shown[j].connected => shown[i].connected
                          /\ shown[i].connected = shown[j].connected
                                => shown[i].signal_strength
                                      >= shown[j].signal_strength

C26_Witness ==
    /\ whist.last.update_callbacks > 0
    /\ Len(wifi_tab.widgets_) = 3
    /\ wifi_tab.widgets_ # whist.last.listed
    /\ wifi_tab.widgets_[1].connected
    /\ ~wifi_tab.widgets_[2].connected
    /\ wifi_tab.widgets_[2].signal_strength > wifi_tab.widgets_[3].signal_strength

\* C27: a toggle of the WiFi switch runs on_wifi_switch_toggled once and
\* issues exactly one command, enable_wifi if the switch is now on and
\* disable_wifi if it is off; the switch is insensitive when the handler
\* returns, and only the 1-second timer makes it sensitive again.
C27_OneCommandPerToggle ==
    /\ [](whist.last.toggles > 0 =>
            /\ whist.last.toggles = 1
            /\ whist.last.actions = 1
            /\ whist.last.op = (IF wifi_tab.wifi_switch_ THEN "enable_wifi"
                                ELSE "disable_wifi")
            /\ ~wifi_tab.switch_sensitive
            /\ \E i \in 1..Len(timers) :
                  timers[i].kind = "switch_reenable" /\ timers[i].due = SwitchDelay)
    /\ [][(wifi_tab.constructed /\ ~wifi_tab.switch_sensitive
             /\ wifi_tab'.switch_sensitive)
            => \E i \in 1..Len(timers) : SwitchReenableFires(i)]_vars

C27_Witness ==
    /\ whist.last.toggles = 1
    /\ whist.last.op = "enable_wifi"
    /\ whist.last.cmd = "ok"
    /\ whist.last.state_callbacks = 1
    /\ whist.nWifiEvents = 2

\* C28: a click on Connect of a network that is not connected tries the
\* saved credentials and re-scans; the password prompt comes only if that
\* left the network not connected and the network is secured; a connect
\* with a password comes only after the prompt was confirmed and is
\* followed by a re-scan and exactly one success or failure dialog.  A
\* click on a connected network issues only a disconnect.
C28_ConnectOrder ==
    LET net == whist.last.clicked
        steps == whist.last.steps
    IN  (steps # <<>> /\ steps[1] \in {"connect", "disconnect"}) =>
           IF net.connected THEN steps = <<"disconnect">>
           ELSE \/ steps = <<"connect", "rescan", "success">>
                \/ steps = <<"connect", "rescan">> /\ ~net.secured
                \/ /\ net.secured
                   /\ \/ steps = <<"connect", "rescan", "prompt">>
                      \/ \E v \in {"success", "failure"} :
                            steps = <<"connect", "rescan", "prompt",
                                      "connect_password", "rescan", v>>

\* C29: the key handler of PowerTab runs a power action only if the Power
\* tab is the current page, no modifier is held and the keybind of that
\* action is the pressed letter; otherwise it runs nothing and lets the
\* key pass.
C29_ShortcutsOnlyOnPowerTab ==
    LET k == power_tab.last
    IN  /\ k.ran # "none" =>
              /\ power_is_current(S)
              /\ k.state = 0
              /\ power_tab.keybinds[k.ran] = UpperCase(k.key)
        /\ k.handled <=> k.ran # "none"

C29_Witness ==
    /\ power_tab.last.ran = "reboot"
    /\ power_tab.last.key = "r"
    /\ power_tab.last.handled
    /\ power_tab.keybinds["shutdown"] = "R"

\* C30: when the user unchecks the box of a device that is the default,
\* on_default_toggled checks the box again without entering its
\* set-default path: the box ends checked and set_default_device is not
\* called; set_default_device is called only when the user checks a box.
C30_DefaultCannotBeUnchecked ==
    LET t == volume_tab.last
    IN  /\ (t.sink # "" /\ t.unchecked /\ volume_tab.widgets[t.sink].is_default_) =>
              /\ volume_tab.widgets[t.sink].default_check_
              /\ t.set_default_calls = 0
        /\ t.set_default_calls > 0 => ~t.unchecked

\* C31: while on_connect_clicked or on_forget_clicked of a widget runs, no
\* network-list update caused by the handler's own manager calls destroys
\* the widget before the handler has made its last use of manager_,
\* network_ or get_toplevel().
C31_WidgetOutlivesHandler ==
    whist.last.in_widget => ~whist.last.used_freed

\* C32: started without an initial tab, a switch-page event onto a slot
\* that is a placeholder eventually makes the slot leave Placeholder
\* (Loading, then Loaded or Failed), also when the event arrives while the
\* latch of on_tab_switch is set; a UI thread that hangs is not counted
\* against the selection.
C32_NoSelectionLost ==
    \A id \in Tabs :
        (/\ initial_tab_ = ""
         /\ cur # -1
         /\ pages[cur + 1].tab = id
         /\ State(id) = "Placeholder")
        ~> (State(id) # "Placeholder" \/ stuck)

\* C33: a slot that is Loading eventually becomes Loaded or Failed, and
\* the UI thread never gets stuck, whatever the clicks, switch-page events
\* and timer interleavings, provided the timers fire and the construction
\* of a panel returns or throws.
C33_LoadingEnds ==
    /\ \A id \in Tabs :
          (State(id) = "Loading") ~> (State(id) \in {"Loaded", "Failed"})
    /\ [](~stuck)

C35_ScanButtonOnlyWhileEnabled ==
    (wifi_tab.constructed /\ wifi_tab.scan_button_) => manager_.wifi_enabled_

\* C36: whatever the interleaving of overlapping ethernet probes, the
\* ethernet box is a child of the tab's layout exactly if
\* ethernet_box_added_ is true, it is never packed twice and never removed
\* while absent, and once every probe that was started has been delivered
\* the box is shown exactly if the probe delivered last found ethernet
\* connected.
C36_EthernetBoxFollowsProbes ==
    /\ ethernet.packed \in {0, 1}
    /\ ethernet.packed = 1 <=> ethernet.ethernet_box_added_
    /\ ~ethernet.removed_absent
    /\ (ethernet.running = 0 /\ ethernet.idle = <<>> /\ ethernet.delivered > 0)
          => (ethernet.ethernet_box_added_ <=> ethernet.last)

C36_Witness ==
    /\ ethernet.overlapped
    /\ ethernet.delivered = 3
    /\ ethernet.running = 0
    /\ ethernet.idle = <<>>
    /\ ethernet.last
    /\ ethernet.ethernet_box_added_

\* C37: after the power settings dialog was confirmed, the accelerators of
\* the power buttons are those of the current settings only: for each
\* action exactly the accelerator of its current keybind is registered, and
\* none of a previous keybind or of an earlier setup_action_keybinds.
C37_AcceleratorsFollowSettings ==
    power_tab.confirmed =>
        power_tab.accels =
            {[action |-> a, key |-> power_tab.keybinds[a]] :
                a \in {b \in PowerActions : power_tab.keybinds[b] # ""}}

====
